---- MODULE Spec2Model ----
(***************************************************************************)
(* Ground Control supervisor engine: run_processes (src/src/lib.rs).       *)
(*                                                                         *)
(* The engine starts every process specification in order, keeps the       *)
(* returned handles in `running`, waits for the first message on its       *)
(* internal shutdown channel and then stops the handles in reverse order.  *)
(* A failed start rolls back the handles started so far, drains the        *)
(* channel and returns the start error.                                    *)
(*                                                                         *)
(* Specs and their handles are identified by their 1-based position in     *)
(* the `processes` vector.                                                 *)
(***************************************************************************)
EXTENDS Integers, Sequences, FiniteSets, TLC

\* Bounds of the model.
MaxSpecs == 3
MaxCode == 2
MaxLen == 3
MaxVec == 2

ExitCodes == 1..MaxCode
Handles == 1..MaxSpecs

\* enum StartProcessError
StartProcessError ==
    {[kind |-> k, code |-> 0] : k \in {"PreRunFailed", "PreRunKilled", "RunFailed"}}
        \cup {[kind |-> "PreRunAborted", code |-> c] : c \in ExitCodes}

\* enum StopProcessError
StopProcessError ==
    {[kind |-> k, code |-> 0] : k \in {"StopFailed", "ProcessKilled", "PostRunFailed"}}
        \cup {[kind |-> "ProcessAborted", code |-> c] : c \in ExitCodes}

\* Ok(()) of either Result type, and the value of a Result not yet produced.
Ok == [kind |-> "Ok", code |-> 0]
Pending == [kind |-> "Pending", code |-> 0]

VARIABLES
    processes,                 \* specs not yet taken by the startup loop
    running,                   \* Vec<MP>: handles, in start order
    pc,                        \* position of run_processes
    inflight,                  \* spec/handle of the call being awaited, 0 if none
    err,                       \* the start error bound in the Err arm
    result,                    \* value returned by run_processes
    shutdown_sender,           \* the engine's own sender is alive
    start_sender,              \* the clone moved into the start_process call in flight
    handle_sender,             \* per handle: the sender given to its launcher
    external_shutdown_sender,  \* the bridge task's clone is alive
    shutdown_receiver,         \* the engine's receiver is alive
    chan,                      \* messages queued on the internal channel (origins)
    shutdown,                  \* the external channel: [queue, tx, sent, rx, closedEarly]
    bridge,                    \* position of the spawned bridge task
    startCalls,                \* history: specs whose start_process was called
    startResults,              \* history: what each start_process returned
    pushed,                    \* history: handles pushed onto running
    stopCalls,                 \* history: handles whose stop_process was called
    stopErrors,                \* history: handles whose stop error was logged
    recvs,                     \* history: receives completed at the steady-state recv
    consumed,                  \* history: messages the engine took off the channel
    sent,                      \* history: messages accepted by the channel
    sendFailed,                \* history: a send found the receiver gone
    firstTrigger,              \* history: origin of the message that began teardown
    line,                      \* configuration parser: the CommandLineConfig read
    command                    \* configuration parser: the CommandConfig made of it

vars == <<processes, running, pc, inflight, err, result, shutdown_sender, start_sender,
          handle_sender, external_shutdown_sender, shutdown_receiver, chan, shutdown,
          bridge, startCalls, startResults, pushed, stopCalls, stopErrors, recvs,
          consumed, sent, sendFailed, firstTrigger, line, command>>

engineVars == <<processes, running, pc, inflight, err, result, shutdown_sender,
                start_sender>>
histVars == <<startCalls, startResults, pushed, stopCalls, stopErrors, recvs,
              consumed, firstTrigger>>

\* Origin tag of the message forwarded by the bridge task.
External == 0

\* Number of live senders of the internal channel.
SenderCount ==
    (IF shutdown_sender THEN 1 ELSE 0)
        + (IF start_sender THEN 1 ELSE 0)
        + (IF external_shutdown_sender THEN 1 ELSE 0)
        + Cardinality({h \in Handles : handle_sender[h] = "live"})

\* The configuration parser at rest: nothing read, nothing produced.
NoLine == [tag |-> "None", user |-> <<>>, env_vars |-> {},
           command |-> [tag |-> "None", line |-> <<>>, v |-> <<>>]]
NotParsed == [state |-> "unparsed", user |-> <<>>, env_vars |-> {}, program |-> <<>>,
              args |-> <<>>]

\* run_processes is entered with a vector of n specs and the caller's receiver.
Init ==
    /\ \E n \in 0..MaxSpecs : processes = [k \in 1..n |-> k]
    /\ running = <<>>
    /\ pc = "loop"
    /\ inflight = 0
    /\ err = Pending
    /\ result = Pending
    /\ shutdown_sender = TRUE
    /\ start_sender = FALSE
    /\ handle_sender = [h \in Handles |-> "none"]
    /\ external_shutdown_sender = FALSE
    /\ shutdown_receiver = TRUE
    /\ chan = <<>>
    /\ shutdown = [queue |-> 0, tx |-> TRUE, sent |-> FALSE, rx |-> "engine",
                   closedEarly |-> FALSE]
    /\ bridge = "unspawned"
    /\ startCalls = <<>>
    /\ startResults = <<>>
    /\ pushed = <<>>
    /\ stopCalls = <<>>
    /\ stopErrors = {}
    /\ recvs = 0
    /\ consumed = 0
    /\ sent = 0
    /\ sendFailed = FALSE
    /\ firstTrigger = -1
    /\ line = NoLine
    /\ command = NotParsed

\* mpsc::UnboundedSender::send from `origin`: queued while the receiver lives,
\* an error once it is gone.
Send(origin) ==
    IF shutdown_receiver
    THEN /\ chan' = Append(chan, origin)
         /\ sent' = sent + 1
         /\ UNCHANGED sendFailed
    ELSE /\ sendFailed' = TRUE
         /\ UNCHANGED <<chan, sent>>

\* Variant of StartCall: once the external channel is closed the loop is left
\* without starting the remaining specs and the bridge is spawned.
StartCall_BreakWhenClosed ==
    /\ pc = "loop"
    /\ processes # <<>>
    /\ IF shutdown.tx
       THEN /\ inflight' = Head(processes)
            /\ processes' = Tail(processes)
            /\ start_sender' = TRUE
            /\ startCalls' = Append(startCalls, Head(processes))
            /\ pc' = "starting"
            /\ UNCHANGED <<external_shutdown_sender, shutdown, bridge>>
       ELSE /\ external_shutdown_sender' = TRUE
            /\ bridge' = "waiting"
            /\ shutdown' = [shutdown EXCEPT !.rx = "bridge"]
            /\ pc' = "recv"
            /\ UNCHANGED <<inflight, processes, start_sender, startCalls>>
    /\ UNCHANGED <<running, err, result, shutdown_sender, handle_sender,
                   shutdown_receiver, chan, startResults, pushed, stopCalls, stopErrors,
                   recvs, consumed, sent, sendFailed, firstTrigger>>

\* Variant of StartCall: the loop looks at the shutdown channel before each
\* start and goes to the teardown as soon as a message is queued.
StartCall_PollTrigger ==
    /\ pc = "loop"
    /\ processes # <<>>
    /\ IF chan = <<>>
       THEN /\ inflight' = Head(processes)
            /\ processes' = Tail(processes)
            /\ start_sender' = TRUE
            /\ startCalls' = Append(startCalls, Head(processes))
            /\ pc' = "starting"
            /\ UNCHANGED <<chan, recvs, consumed, firstTrigger>>
       ELSE /\ chan' = Tail(chan)
            /\ consumed' = consumed + 1
            /\ recvs' = recvs + 1
            /\ firstTrigger' = Head(chan)
            /\ pc' = "teardown"
            /\ UNCHANGED <<inflight, processes, start_sender, startCalls>>
    /\ UNCHANGED <<running, err, result, shutdown_sender, handle_sender,
                   external_shutdown_sender, shutdown_receiver, shutdown, bridge,
                   startResults, pushed, stopCalls, stopErrors, sendFailed, sent>>

\* for sp in processes.into_iter() { sp.start_process(shutdown_sender.clone()) ...
StartCall ==
    /\ pc = "loop"
    /\ processes # <<>>
    /\ inflight' = Head(processes)
    /\ processes' = Tail(processes)
    /\ start_sender' = TRUE
    /\ startCalls' = Append(startCalls, Head(processes))
    /\ pc' = "starting"
    /\ UNCHANGED <<running, err, result, shutdown_sender, handle_sender,
                   external_shutdown_sender, shutdown_receiver, chan, shutdown, bridge,
                   startResults, pushed, stopCalls, stopErrors, recvs, consumed, sent,
                   sendFailed, firstTrigger>>

\* Ok(process) => process; running.push(process)
StartOk ==
    /\ pc = "starting"
    /\ start_sender' = FALSE
    /\ handle_sender' = [handle_sender EXCEPT ![inflight] = "live"]
    /\ running' = Append(running, inflight)
    /\ pushed' = Append(pushed, inflight)
    /\ startResults' = Append(startResults, Ok)
    /\ inflight' = 0
    /\ pc' = "loop"
    /\ UNCHANGED <<processes, err, result, shutdown_sender, external_shutdown_sender,
                   shutdown_receiver, chan, shutdown, bridge, startCalls, stopCalls,
                   stopErrors, recvs, consumed, sent, sendFailed, firstTrigger>>

\* Variant of StartErr: keeps the kind of the error and loses its exit code.
StartErr_KindOnly(e) ==
    /\ pc = "starting"
    /\ start_sender' = FALSE
    /\ err' = [e EXCEPT !.code = 0]
    /\ startResults' = Append(startResults, e)
    /\ inflight' = 0
    /\ pc' = "rollback"
    /\ UNCHANGED <<processes, running, result, shutdown_sender, handle_sender,
                   external_shutdown_sender, shutdown_receiver, chan, shutdown, bridge,
                   startCalls, pushed, stopCalls, stopErrors, recvs, consumed, sent,
                   sendFailed, firstTrigger>>

\* Variant of StartErr: the failure is recorded but the startup loop goes on
\* with the next spec.
StartErr_Continue(e) ==
    /\ pc = "starting"
    /\ start_sender' = FALSE
    /\ err' = e
    /\ startResults' = Append(startResults, e)
    /\ inflight' = 0
    /\ pc' = IF processes # <<>> THEN "loop" ELSE "rollback"
    /\ UNCHANGED <<processes, running, result, shutdown_sender, handle_sender,
                   external_shutdown_sender, shutdown_receiver, chan, shutdown, bridge,
                   startCalls, pushed, stopCalls, stopErrors, recvs, consumed, sent,
                   sendFailed, firstTrigger>>

\* Err(err) => { tracing::error!(...); ... rollback
StartErr(e) ==
    /\ pc = "starting"
    /\ start_sender' = FALSE
    /\ err' = e
    /\ startResults' = Append(startResults, e)
    /\ inflight' = 0
    /\ pc' = "rollback"
    /\ UNCHANGED <<processes, running, result, shutdown_sender, handle_sender,
                   external_shutdown_sender, shutdown_receiver, chan, shutdown, bridge,
                   startCalls, pushed, stopCalls, stopErrors, recvs, consumed, sent,
                   sendFailed, firstTrigger>>

\* Vec::pop: the last element, and the vector without it.
Last(s) == s[Len(s)]
Front(s) == SubSeq(s, 1, Len(s) - 1)

\* Variant of RollbackPop: takes the handles from the front of the vector.
RollbackPop_Fifo ==
    /\ pc = "rollback"
    /\ running # <<>>
    /\ inflight' = Head(running)
    /\ running' = Tail(running)
    /\ stopCalls' = Append(stopCalls, Head(running))
    /\ pc' = "rb_stopping"
    /\ UNCHANGED <<processes, err, result, shutdown_sender, start_sender, handle_sender,
                   external_shutdown_sender, shutdown_receiver, chan, shutdown, bridge,
                   startCalls, startResults, pushed, stopErrors, recvs, consumed, sent,
                   sendFailed, firstTrigger>>

\* while let Some(process) = running.pop() { process.stop_process() ...   (rollback)
RollbackPop ==
    /\ pc = "rollback"
    /\ running # <<>>
    /\ inflight' = Last(running)
    /\ running' = Front(running)
    /\ stopCalls' = Append(stopCalls, Last(running))
    /\ pc' = "rb_stopping"
    /\ UNCHANGED <<processes, err, result, shutdown_sender, start_sender, handle_sender,
                   external_shutdown_sender, shutdown_receiver, chan, shutdown, bridge,
                   startCalls, startResults, pushed, stopErrors, recvs, consumed, sent,
                   sendFailed, firstTrigger>>

\* Variant of RollbackStopReturn: a stop error replaces the error to return.
RollbackStopReturn_Propagate(r) ==
    /\ pc = "rb_stopping"
    /\ stopErrors' = IF r = Ok THEN stopErrors ELSE stopErrors \cup {inflight}
    /\ inflight' = 0
    /\ pc' = "rollback"
    /\ err' = IF r = Ok THEN err ELSE r
    /\ UNCHANGED <<processes, running, result, shutdown_sender, start_sender,
                   handle_sender, external_shutdown_sender, shutdown_receiver, chan,
                   shutdown, bridge, startCalls, startResults, pushed, stopCalls, recvs,
                   consumed, sent, sendFailed, firstTrigger>>

\* if let Err(err) = process.stop_process().await { tracing::error!(...) }   (rollback)
RollbackStopReturn(r) ==
    /\ pc = "rb_stopping"
    /\ stopErrors' = IF r = Ok THEN stopErrors ELSE stopErrors \cup {inflight}
    /\ inflight' = 0
    /\ pc' = "rollback"
    /\ UNCHANGED <<processes, running, err, result, shutdown_sender, start_sender,
                   handle_sender, external_shutdown_sender, shutdown_receiver, chan,
                   shutdown, bridge, startCalls, startResults, pushed, stopCalls, recvs,
                   consumed, sent, sendFailed, firstTrigger>>

\* Variant of DropSender: the rollback loop is left before running is empty.
DropSender_Early ==
    /\ pc = "rollback"
    /\ shutdown_sender' = FALSE
    /\ pc' = "drain"
    /\ UNCHANGED <<processes, running, inflight, err, result, start_sender,
                   handle_sender, external_shutdown_sender, shutdown_receiver, chan,
                   shutdown, bridge, startCalls, startResults, pushed, stopCalls,
                   stopErrors, recvs, consumed, sent, sendFailed, firstTrigger>>

\* Variant of DropSender: the engine keeps its sender while it drains.
DropSender_Keep ==
    /\ pc = "rollback"
    /\ running = <<>>
    /\ pc' = "drain"
    /\ UNCHANGED <<processes, running, inflight, err, result, shutdown_sender,
                   start_sender, handle_sender, external_shutdown_sender,
                   shutdown_receiver, chan, shutdown, bridge, startCalls, startResults,
                   pushed, stopCalls, stopErrors, recvs, consumed, sent, sendFailed,
                   firstTrigger>>

\* drop(shutdown_sender);
DropSender ==
    /\ pc = "rollback"
    /\ running = <<>>
    /\ shutdown_sender' = FALSE
    /\ pc' = "drain"
    /\ UNCHANGED <<processes, running, inflight, err, result, start_sender,
                   handle_sender, external_shutdown_sender, shutdown_receiver, chan,
                   shutdown, bridge, startCalls, startResults, pushed, stopCalls,
                   stopErrors, recvs, consumed, sent, sendFailed, firstTrigger>>

\* Variant of ReturnErr: returns Ok(()) after the rollback.
ReturnErr_Ok ==
    /\ result' = Ok
    /\ pc' = "done"
    /\ shutdown_receiver' = FALSE
    /\ chan' = <<>>
    /\ shutdown' = [shutdown EXCEPT !.rx = "dropped", !.queue = 0]
    /\ UNCHANGED <<processes, running, inflight, err, shutdown_sender, start_sender,
                   handle_sender, external_shutdown_sender, bridge, startCalls,
                   startResults, pushed, stopCalls, stopErrors, recvs, consumed, sent,
                   sendFailed, firstTrigger>>

\* return Err(err): the receiver and the caller's `shutdown` receiver are dropped
\* with the frame of run_processes.
ReturnErr ==
    /\ result' = err
    /\ pc' = "done"
    /\ shutdown_receiver' = FALSE
    /\ chan' = <<>>
    /\ shutdown' = [shutdown EXCEPT !.rx = "dropped", !.queue = 0]
    /\ UNCHANGED <<processes, running, inflight, err, shutdown_sender, start_sender,
                   handle_sender, external_shutdown_sender, bridge, startCalls,
                   startResults, pushed, stopCalls, stopErrors, recvs, consumed, sent,
                   sendFailed, firstTrigger>>

\* Variant of DrainRecv: returns the error without draining the channel.
DrainRecv_NoDrain ==
    /\ pc = "drain"
    /\ ReturnErr

\* while shutdown_receiver.recv().await.is_some() {}  then  return Err(err)
\* recv() yields a queued message, or None once the queue is empty and every
\* sender is gone; otherwise it keeps waiting.
DrainRecv ==
    /\ pc = "drain"
    /\ IF chan # <<>>
       THEN /\ chan' = Tail(chan)
            /\ consumed' = consumed + 1
            /\ UNCHANGED <<processes, running, pc, inflight, err, result,
                           shutdown_sender, start_sender, handle_sender,
                           external_shutdown_sender, shutdown_receiver, shutdown, bridge,
                           startCalls, startResults, pushed, stopCalls, stopErrors,
                           recvs, sent, sendFailed, firstTrigger>>
       ELSE /\ SenderCount = 0
            /\ ReturnErr

\* Variant of SpawnBridge: the engine's sender is moved into the task, not cloned.
SpawnBridge_MoveSender ==
    /\ pc = "loop"
    /\ processes = <<>>
    /\ shutdown_sender' = FALSE
    /\ external_shutdown_sender' = TRUE
    /\ bridge' = "waiting"
    /\ shutdown' = [shutdown EXCEPT !.rx = "bridge"]
    /\ pc' = "recv"
    /\ UNCHANGED <<processes, running, inflight, err, result, start_sender,
                   handle_sender, shutdown_receiver, chan, startCalls, startResults,
                   pushed, stopCalls, stopErrors, recvs, consumed, sent, sendFailed,
                   firstTrigger>>

\* let external_shutdown_sender = shutdown_sender.clone(); tokio::spawn(...)
SpawnBridge ==
    /\ pc = "loop"
    /\ processes = <<>>
    /\ external_shutdown_sender' = TRUE
    /\ bridge' = "waiting"
    /\ shutdown' = [shutdown EXCEPT !.rx = "bridge"]
    /\ pc' = "recv"
    /\ UNCHANGED <<processes, running, inflight, err, result, shutdown_sender,
                   start_sender, handle_sender, shutdown_receiver, chan, startCalls,
                   startResults, pushed, stopCalls, stopErrors, recvs, consumed, sent,
                   sendFailed, firstTrigger>>

\* Variant of SteadyRecv: the engine goes on to teardown whether or not a
\* message is queued.
SteadyRecv_NoWait ==
    /\ pc = "recv"
    /\ chan' = IF chan # <<>> THEN Tail(chan) ELSE chan
    /\ consumed' = IF chan # <<>> THEN consumed + 1 ELSE consumed
    /\ recvs' = recvs + 1
    /\ firstTrigger' = IF chan # <<>> THEN Head(chan) ELSE firstTrigger
    /\ pc' = "teardown"
    /\ UNCHANGED <<processes, running, inflight, err, result, shutdown_sender,
                   start_sender, handle_sender, external_shutdown_sender,
                   shutdown_receiver, shutdown, bridge, startCalls, startResults, pushed,
                   stopCalls, stopErrors, sent, sendFailed>>

\* shutdown_receiver.recv().await.expect("All shutdown senders closed ...")
SteadyRecv ==
    /\ pc = "recv"
    /\ IF chan # <<>>
       THEN /\ chan' = Tail(chan)
            /\ consumed' = consumed + 1
            /\ recvs' = recvs + 1
            /\ firstTrigger' = Head(chan)
            /\ pc' = "teardown"
       ELSE /\ SenderCount = 0
            /\ pc' = "panicked"
            /\ UNCHANGED <<chan, consumed, recvs, firstTrigger>>
    /\ UNCHANGED <<processes, running, inflight, err, result, shutdown_sender,
                   start_sender, handle_sender, external_shutdown_sender,
                   shutdown_receiver, shutdown, bridge, startCalls, startResults, pushed,
                   stopCalls, stopErrors, sent, sendFailed>>

\* Variant of TeardownPop: the next stop is called without awaiting the one in
\* progress.
TeardownPop_Concurrent ==
    /\ pc \in {"teardown", "td_stopping"}
    /\ running # <<>>
    /\ inflight' = Last(running)
    /\ running' = Front(running)
    /\ stopCalls' = Append(stopCalls, Last(running))
    /\ pc' = "td_stopping"
    /\ UNCHANGED <<processes, err, result, shutdown_sender, start_sender, handle_sender,
                   external_shutdown_sender, shutdown_receiver, chan, shutdown, bridge,
                   startCalls, startResults, pushed, stopErrors, recvs, consumed, sent,
                   sendFailed, firstTrigger>>

\* Variant of TeardownPop: takes the handles from the front of the vector.
TeardownPop_Fifo ==
    /\ pc = "teardown"
    /\ running # <<>>
    /\ inflight' = Head(running)
    /\ running' = Tail(running)
    /\ stopCalls' = Append(stopCalls, Head(running))
    /\ pc' = "td_stopping"
    /\ UNCHANGED <<processes, err, result, shutdown_sender, start_sender, handle_sender,
                   external_shutdown_sender, shutdown_receiver, chan, shutdown, bridge,
                   startCalls, startResults, pushed, stopErrors, recvs, consumed, sent,
                   sendFailed, firstTrigger>>

\* Variant of TeardownPop: stops the last handle without removing it.
TeardownPop_Peek ==
    /\ pc = "teardown"
    /\ running # <<>>
    /\ inflight' = Last(running)
    /\ running' = running
    /\ stopCalls' = Append(stopCalls, Last(running))
    /\ pc' = "td_stopping"
    /\ UNCHANGED <<processes, err, result, shutdown_sender, start_sender, handle_sender,
                   external_shutdown_sender, shutdown_receiver, chan, shutdown, bridge,
                   startCalls, startResults, pushed, stopErrors, recvs, consumed, sent,
                   sendFailed, firstTrigger>>

\* Variant of TeardownPop: a handle whose child has already exited is removed
\* without a stop_process call.
TeardownPop_SkipExited ==
    /\ pc = "teardown"
    /\ running # <<>>
    /\ running' = Front(running)
    /\ IF handle_sender[Last(running)] = "exited"
       THEN UNCHANGED <<inflight, stopCalls, pc>>
       ELSE /\ inflight' = Last(running)
            /\ stopCalls' = Append(stopCalls, Last(running))
            /\ pc' = "td_stopping"
    /\ UNCHANGED <<processes, err, result, shutdown_sender, start_sender, handle_sender,
                   external_shutdown_sender, shutdown_receiver, chan, shutdown, bridge,
                   startCalls, startResults, pushed, stopErrors, recvs, consumed, sent,
                   sendFailed, firstTrigger>>

\* while let Some(process) = running.pop() { process.stop_process() ...   (teardown)
TeardownPop ==
    /\ pc = "teardown"
    /\ running # <<>>
    /\ inflight' = Last(running)
    /\ running' = Front(running)
    /\ stopCalls' = Append(stopCalls, Last(running))
    /\ pc' = "td_stopping"
    /\ UNCHANGED <<processes, err, result, shutdown_sender, start_sender, handle_sender,
                   external_shutdown_sender, shutdown_receiver, chan, shutdown, bridge,
                   startCalls, startResults, pushed, stopErrors, recvs, consumed, sent,
                   sendFailed, firstTrigger>>

\* Variant of TeardownStopReturn: a stop error ends the loop, the handles left
\* in running are dropped unstopped.
TeardownStopReturn_BreakOnError(r) ==
    /\ pc = "td_stopping"
    /\ stopErrors' = IF r = Ok THEN stopErrors ELSE stopErrors \cup {inflight}
    /\ running' = IF r = Ok THEN running ELSE <<>>
    /\ inflight' = 0
    /\ pc' = "teardown"
    /\ UNCHANGED <<processes, err, result, shutdown_sender, start_sender,
                   handle_sender, external_shutdown_sender, shutdown_receiver, chan,
                   shutdown, bridge, startCalls, startResults, pushed, stopCalls, recvs,
                   consumed, sent, sendFailed, firstTrigger>>

\* Variant of TeardownStopReturn: waits for another message after each stop.
TeardownStopReturn_Rerecv(r) ==
    /\ pc = "td_stopping"
    /\ stopErrors' = IF r = Ok THEN stopErrors ELSE stopErrors \cup {inflight}
    /\ inflight' = 0
    /\ pc' = "recv"
    /\ UNCHANGED <<processes, running, err, result, shutdown_sender, start_sender,
                   handle_sender, external_shutdown_sender, shutdown_receiver, chan,
                   shutdown, bridge, startCalls, startResults, pushed, stopCalls, recvs,
                   consumed, sent, sendFailed, firstTrigger>>

\* if let Err(err) = process.stop_process().await { tracing::error!(...) }   (teardown)
TeardownStopReturn(r) ==
    /\ pc = "td_stopping"
    /\ stopErrors' = IF r = Ok THEN stopErrors ELSE stopErrors \cup {inflight}
    /\ inflight' = 0
    /\ pc' = "teardown"
    /\ UNCHANGED <<processes, running, err, result, shutdown_sender, start_sender,
                   handle_sender, external_shutdown_sender, shutdown_receiver, chan,
                   shutdown, bridge, startCalls, startResults, pushed, stopCalls, recvs,
                   consumed, sent, sendFailed, firstTrigger>>

\* Ok(())  -  the frame's shutdown_sender and shutdown_receiver are dropped.
ReturnOk ==
    /\ pc = "teardown"
    /\ running = <<>>
    /\ result' = Ok
    /\ pc' = "done"
    /\ shutdown_sender' = FALSE
    /\ shutdown_receiver' = FALSE
    /\ chan' = <<>>
    /\ UNCHANGED <<processes, running, inflight, err, start_sender, handle_sender,
                   external_shutdown_sender, shutdown, bridge, startCalls, startResults,
                   pushed, stopCalls, stopErrors, recvs, consumed, sent, sendFailed,
                   firstTrigger>>

\* The caller sends its one "please stop" value on the external channel.
ExtSend ==
    /\ shutdown.tx
    /\ ~shutdown.sent
    /\ shutdown' = [shutdown EXCEPT !.sent = TRUE,
                                    !.queue = IF shutdown.rx = "dropped" THEN 0 ELSE 1]
    /\ UNCHANGED <<engineVars, handle_sender, external_shutdown_sender,
                   shutdown_receiver, chan, bridge, histVars, sent, sendFailed>>

\* The caller drops its sender, closing the external channel.
ExtClose ==
    /\ shutdown.tx
    /\ shutdown' = [shutdown EXCEPT !.tx = FALSE, !.closedEarly = (startCalls = <<>>)]
    /\ UNCHANGED <<engineVars, handle_sender, external_shutdown_sender,
                   shutdown_receiver, chan, bridge, histVars, sent, sendFailed>>

\* let _ = shutdown.recv().await;   (bridge task)
BridgeRecv ==
    /\ bridge = "waiting"
    /\ IF shutdown.queue > 0
       THEN /\ bridge' = "got_value"
            /\ shutdown' = [shutdown EXCEPT !.queue = 0]
       ELSE /\ ~shutdown.tx
            /\ bridge' = "got_closed"
            /\ UNCHANGED shutdown
    /\ UNCHANGED <<engineVars, handle_sender, external_shutdown_sender,
                   shutdown_receiver, chan, histVars, sent, sendFailed>>

\* Variant of BridgeSend: only a received value is forwarded, a closed channel
\* ends the task without a message.
BridgeSend_ValueOnly ==
    /\ bridge \in {"got_value", "got_closed"}
    /\ IF bridge = "got_value" THEN Send(External) ELSE UNCHANGED <<chan, sent, sendFailed>>
    /\ bridge' = IF bridge = "got_value" THEN "done_value" ELSE "done_closed"
    /\ external_shutdown_sender' = FALSE
    /\ shutdown' = [shutdown EXCEPT !.rx = "dropped", !.queue = 0]
    /\ UNCHANGED <<engineVars, handle_sender, shutdown_receiver, histVars>>

\* let _ = external_shutdown_sender.send(());   (bridge task, then the task ends)
BridgeSend ==
    /\ bridge \in {"got_value", "got_closed"}
    /\ Send(External)
    /\ bridge' = IF bridge = "got_value" THEN "done_value" ELSE "done_closed"
    /\ external_shutdown_sender' = FALSE
    /\ shutdown' = [shutdown EXCEPT !.rx = "dropped", !.queue = 0]
    /\ UNCHANGED <<engineVars, handle_sender, shutdown_receiver, histVars>>

\* The run child of handle h exits: its launcher sends one notification on the
\* sender it was given and lets the sender go.
ChildExit(h) ==
    /\ handle_sender[h] = "live"
    /\ Send(h)
    /\ handle_sender' = [handle_sender EXCEPT ![h] = "exited"]
    /\ UNCHANGED <<engineVars, external_shutdown_sender, shutdown_receiver, shutdown,
                   bridge, histVars>>

\* Handle h lets its sender go without a notification (no run child).
HandleDrop(h) ==
    /\ handle_sender[h] = "live"
    /\ handle_sender' = [handle_sender EXCEPT ![h] = "dropped"]
    /\ UNCHANGED <<engineVars, external_shutdown_sender, shutdown_receiver, chan,
                   shutdown, bridge, histVars, sent, sendFailed>>

\* The steps of run_processes itself, the awaited calls' returns included.
EngineStep ==
    \/ StartCall
    \/ StartOk
    \/ \E e \in StartProcessError : StartErr(e)
    \/ RollbackPop
    \/ \E r \in {Ok} \cup StopProcessError : RollbackStopReturn(r)
    \/ DropSender
    \/ DrainRecv
    \/ SpawnBridge
    \/ SteadyRecv
    \/ TeardownPop
    \/ \E r \in {Ok} \cup StopProcessError : TeardownStopReturn(r)
    \/ ReturnOk

\* The steps of the spawned bridge task.
BridgeStep ==
    \/ BridgeRecv
    \/ BridgeSend

\* run_processes does not touch the configuration parser's values.
ParserIdle == UNCHANGED <<line, command>>

Next ==
    \/ StartCall /\ ParserIdle
    \/ StartOk /\ ParserIdle
    \/ (\E e \in StartProcessError : StartErr(e)) /\ ParserIdle
    \/ RollbackPop /\ ParserIdle
    \/ (\E r \in {Ok} \cup StopProcessError : RollbackStopReturn(r)) /\ ParserIdle
    \/ DropSender /\ ParserIdle
    \/ DrainRecv /\ ParserIdle
    \/ SpawnBridge /\ ParserIdle
    \/ SteadyRecv /\ ParserIdle
    \/ TeardownPop /\ ParserIdle
    \/ (\E r \in {Ok} \cup StopProcessError : TeardownStopReturn(r)) /\ ParserIdle
    \/ ReturnOk /\ ParserIdle
    \/ ExtSend /\ ParserIdle
    \/ ExtClose /\ ParserIdle
    \/ BridgeRecv /\ ParserIdle
    \/ BridgeSend /\ ParserIdle
    \/ (\E h \in Handles : ChildExit(h)) /\ ParserIdle
    \/ (\E h \in Handles : HandleDrop(h)) /\ ParserIdle

Spec == Init /\ [][Next]_vars

\* The runtime keeps polling run_processes and the spawned task, and every
\* awaited start_process and stop_process call returns; nothing obliges the
\* caller to ask for shutdown or a child to exit.
FairSpec ==
    /\ Spec
    /\ WF_vars(EngineStep /\ ParserIdle)
    /\ WF_vars(BridgeStep /\ ParserIdle)

(***************************************************************************)
(* Configuration parser: CommandLineConfig to CommandConfig                *)
(* (src/src/config.rs).  A String is a sequence of characters, an Option   *)
(* a sequence of at most one element.                                      *)
(***************************************************************************)

Chars == {" ", "a", "b"}
Strings == UNION {[1..n -> Chars] : n \in 0..MaxLen}
Words == {<<>>, <<"a">>, <<"b">>, <<"a", " ", "b">>}
Vectors == UNION {[1..n -> Words] : n \in 0..MaxVec}
Users == {<<>>, <<"app">>}
EnvVarSets == {{}, {"USER", "HOME"}}

\* enum CommandLine { CommandString(String), CommandVector(Vec<String>) }
CommandLine ==
    {[tag |-> "CommandString", line |-> l, v |-> <<>>] : l \in Strings}
        \cup {[tag |-> "CommandVector", line |-> <<>>, v |-> v] : v \in Vectors}

\* enum CommandLineConfig { Simple(CommandLine), Detailed(DetailedCommandLine) }
CommandLineConfig ==
    {[tag |-> "Simple", user |-> <<>>, env_vars |-> {}, command |-> c] : c \in CommandLine}
        \cup {[tag |-> "Detailed", user |-> u, env_vars |-> e, command |-> c] :
                u \in Users, e \in EnvVarSets, c \in CommandLine}

\* Position of the first space of l, 0 if it has none.
FindSpace(l) ==
    IF \E i \in 1..Len(l) : l[i] = " "
    THEN CHOOSE i \in 1..Len(l) : l[i] = " " /\ \A j \in 1..(i - 1) : l[j] # " "
    ELSE 0

\* The part of l after its leading spaces.
RECURSIVE SkipSpaces(_)
SkipSpaces(l) ==
    IF l # <<>> /\ Head(l) = " " THEN SkipSpaces(Tail(l)) ELSE l

\* Variant of split: a run of spaces separates only once.
RECURSIVE split_runs(_)
split_runs(l) ==
    IF FindSpace(l) = 0 THEN <<l>>
    ELSE <<SubSeq(l, 1, FindSpace(l) - 1)>>
            \o split_runs(SkipSpaces(SubSeq(l, FindSpace(l) + 1, Len(l))))

\* line.split(' '): the pieces between single spaces, empty pieces included.
RECURSIVE split(_)
split(l) ==
    IF FindSpace(l) = 0 THEN <<l>>
    ELSE <<SubSeq(l, 1, FindSpace(l) - 1)>> \o split(SubSeq(l, FindSpace(l) + 1, Len(l)))

\* CommandLine::program_and_args; v[0] of an empty vector panics, and
\* elems.next() of a split is never None.
program_and_args(c) ==
    IF c.tag = "CommandString"
    THEN [panic |-> FALSE, program |-> Head(split(c.line)), args |-> Tail(split(c.line))]
    ELSE IF c.v = <<>>
         THEN [panic |-> TRUE, program |-> <<>>, args |-> <<>>]
         ELSE [panic |-> FALSE, program |-> c.v[1], args |-> SubSeq(c.v, 2, Len(c.v))]

\* impl From<CommandLineConfig> for CommandConfig
From(config) ==
    LET pa == program_and_args(config.command) IN
    IF pa.panic
    THEN [state |-> "panic", user |-> <<>>, env_vars |-> {}, program |-> <<>>,
          args |-> <<>>]
    ELSE [state |-> "ok",
          user |-> IF config.tag = "Simple" THEN <<>> ELSE config.user,
          env_vars |-> IF config.tag = "Simple" THEN {} ELSE config.env_vars,
          program |-> pa.program,
          args |-> pa.args]

\* The engine's variables, which the parser does not touch.
runVars == <<processes, running, pc, inflight, err, result, shutdown_sender,
             start_sender, handle_sender, external_shutdown_sender, shutdown_receiver,
             chan, shutdown, bridge, startCalls, startResults, pushed, stopCalls,
             stopErrors, recvs, consumed, sent, sendFailed, firstTrigger>>

\* A command of any of the three shapes has been deserialized; the engine has
\* not been entered.
ConfigInit ==
    /\ line \in CommandLineConfig
    /\ command = NotParsed
    /\ processes = <<>>
    /\ running = <<>>
    /\ pc = "config"
    /\ inflight = 0
    /\ err = Pending
    /\ result = Pending
    /\ shutdown_sender = FALSE
    /\ start_sender = FALSE
    /\ handle_sender = [h \in Handles |-> "none"]
    /\ external_shutdown_sender = FALSE
    /\ shutdown_receiver = FALSE
    /\ chan = <<>>
    /\ shutdown = [queue |-> 0, tx |-> TRUE, sent |-> FALSE, rx |-> "engine",
                   closedEarly |-> FALSE]
    /\ bridge = "unspawned"
    /\ startCalls = <<>>
    /\ startResults = <<>>
    /\ pushed = <<>>
    /\ stopCalls = <<>>
    /\ stopErrors = {}
    /\ recvs = 0
    /\ consumed = 0
    /\ sent = 0
    /\ sendFailed = FALSE
    /\ firstTrigger = -1

\* #[serde(from = "CommandLineConfig")]: the descriptor is made of the line.
Convert ==
    /\ command = NotParsed
    /\ command' = From(line)
    /\ UNCHANGED <<line, runVars>>

ConfigNext == Convert

ConfigSpec == ConfigInit /\ [][ConfigNext]_vars

(***************************************************************************)
(* Properties of run_processes.                                            *)
(***************************************************************************)

Reverse(s) == [j \in 1..Len(s) |-> s[Len(s) + 1 - j]]
Range(s) == {s[j] : j \in 1..Len(s)}
NoDuplicates(s) == \A a, b \in 1..Len(s) : s[a] = s[b] => a = b
IsPrefix(s, t) == Len(s) <= Len(t) /\ \A j \in 1..Len(s) : s[j] = t[j]
UpTo(n) == [j \in 1..n |-> j]

\* Length of the spec list run_processes was called with.
NumSpecs == Len(startCalls) + Len(processes)
\* Every start_process call that has returned so far returned Ok.
AllStartsOk == \A j \in 1..Len(startResults) : startResults[j] = Ok
\* Position of the first failed start (0 if none has failed).
FirstFail ==
    IF AllStartsOk THEN 0
    ELSE CHOOSE j \in 1..Len(startResults) :
            /\ startResults[j] # Ok
            /\ \A m \in 1..(j - 1) : startResults[m] = Ok
\* The caller has asked for shutdown on the external channel.
ExternalRequested == shutdown.sent \/ ~shutdown.tx
Returned == pc = "done"

\* C1: when every start succeeded and an external shutdown was requested, the
\* returned run has called start for specs 1..n in order, stop exactly n times,
\* once per handle, in the exact reverse of the start order, and returned Ok.
C1_ExternalShutdownStopsAllInReverse ==
    (Returned /\ AllStartsOk /\ ExternalRequested) =>
        /\ startCalls = UpTo(NumSpecs)
        /\ Len(stopCalls) = NumSpecs
        /\ stopCalls = Reverse(startCalls)
        /\ result = Ok

C1_Witness ==
    /\ Returned
    /\ firstTrigger = External
    /\ startCalls = <<1, 2, 3>>
    /\ stopCalls = <<3, 2, 1>>
    /\ result = Ok

\* C2: when start k is the first to fail, start is called exactly for specs 1..k
\* in order and for no later spec, stop is called only for handles k-1 down to 1
\* in that order, and by the time of the return for every one of them.
C2_FailedStartRollsBackEarlier ==
    (~AllStartsOk) =>
        /\ startCalls = UpTo(FirstFail)
        /\ Len(startResults) = FirstFail
        /\ IsPrefix(stopCalls, Reverse(UpTo(FirstFail - 1)))
        /\ (Returned => stopCalls = Reverse(UpTo(FirstFail - 1)))

C2_Witness ==
    /\ Returned
    /\ FirstFail = 3
    /\ processes = <<>>
    /\ startCalls = <<1, 2, 3>>
    /\ stopCalls = <<2, 1>>

C2_WitnessNoLaterStart ==
    /\ Returned
    /\ FirstFail = 2
    /\ processes = <<3>>
    /\ stopCalls = <<1>>

\* C3: in every reachable state, every handle stop_process was called on had
\* been pushed onto the running set (its start returned Ok) and is no longer in
\* it, and no handle has been stopped twice.
C3_StopOnlyStartedAndOnce ==
    /\ Range(stopCalls) \subseteq Range(pushed)
    /\ \A h \in Range(stopCalls) : startResults[h] = Ok
    /\ Range(stopCalls) \cap Range(running) = {}
    /\ NoDuplicates(stopCalls)

C3_Witness ==
    /\ Len(stopCalls) = 2
    /\ pc = "rb_stopping"
    /\ running = <<>>

\* C4: whenever run_processes has returned, the result is Ok exactly when every
\* attempted start succeeded and a start error exactly when some start failed.
C4_OkIffAllStartsOk ==
    Returned =>
        /\ result = Ok <=> AllStartsOk
        /\ result \in StartProcessError <=> ~AllStartsOk

C4_Witness ==
    /\ Returned
    /\ result = Ok
    /\ stopErrors # {}
    /\ firstTrigger \in Handles

C4_WitnessErr ==
    /\ Returned
    /\ result \in StartProcessError
    /\ Len(startCalls) = 2

\* C5: when a start failed, the returned value is the very error that start
\* produced (kind and exit code), and at the return every handle pushed before
\* it has had stop_process called and returned and every message accepted by
\* the channel has been received.
C5_FirstStartErrorReturnedAfterRollback ==
    (Returned /\ ~AllStartsOk) =>
        /\ result = startResults[FirstFail]
        /\ Range(stopCalls) = Range(pushed)
        /\ Len(stopCalls) = FirstFail - 1
        /\ inflight = 0
        /\ running = <<>>
        /\ consumed = sent

C5_Witness ==
    /\ Returned
    /\ result = [kind |-> "PreRunAborted", code |-> 2]
    /\ stopCalls = <<1>>
    /\ consumed = 1

\* The teardown run_processes performs for n specs whose starts all succeed.
CleanTeardown(n) == [stops |-> Reverse(UpTo(n)), result |-> Ok]

\* C6: closing the external input without a value and sending a value on it
\* give the same teardown: in both cases the bridge forwards one message that
\* the waiting engine finds on its channel, and a run torn down by that message
\* has stopped every handle in reverse start order and returned Ok.
C6_CloseEqualsSend ==
    \A how \in {"done_value", "done_closed"} :
        /\ (bridge = how /\ pc = "recv") => External \in Range(chan)
        /\ (bridge = how /\ Returned /\ firstTrigger = External) =>
                [stops |-> stopCalls, result |-> result] = CleanTeardown(NumSpecs)

C6_Witness ==
    /\ Returned
    /\ bridge = "done_closed"
    /\ ~shutdown.sent
    /\ firstTrigger = External
    /\ stopCalls = <<2, 1>>
    /\ result = Ok

C6_WitnessValue ==
    /\ Returned
    /\ bridge = "done_value"
    /\ shutdown.tx
    /\ firstTrigger = External
    /\ stopCalls = <<2, 1>>
    /\ result = Ok

\* C7: once the startup loop has ended without a failure, the engine receives
\* from its channel at most once, at the steady-state recv, whatever number of
\* notifications is sent: no stop is called before that one receive, no message
\* is consumed after it, and the returned run has stopped each handle once.
C7_TeardownTriggeredOnce ==
    (err = Pending) =>
        /\ recvs <= 1
        /\ consumed = recvs
        /\ (stopCalls # <<>> => recvs = 1)
        /\ NoDuplicates(stopCalls)
        /\ (Returned => recvs = 1 /\ Len(stopCalls) = NumSpecs)

C7_Witness ==
    /\ Returned
    /\ result = Ok
    /\ sent = 3
    /\ consumed = 1
    /\ stopCalls = <<2, 1>>
    /\ bridge = "done_value"

\* C8: a stop_process call that returned an error never changes the result:
\* after teardown the result is still Ok, after rollback it is still the error
\* of the failed start.
C8_StopErrorsDiscarded ==
    (Returned /\ stopErrors # {}) =>
        result = (IF AllStartsOk THEN Ok ELSE startResults[FirstFail])

C8_Witness ==
    /\ Returned
    /\ stopErrors = {1, 2}
    /\ result = [kind |-> "RunFailed", code |-> 0]

C8_WitnessTeardown ==
    /\ Returned
    /\ stopErrors = {1, 2, 3}
    /\ result = Ok

\* C9: when all starts succeeded and the message that began teardown is the
\* exit notification of one of the handles, the returned run has called stop on
\* every handle in reverse start order, the exited one included, and returned Ok.
C9_ChildExitTearsDownAll ==
    (Returned /\ AllStartsOk /\ firstTrigger \in Handles) =>
        /\ handle_sender[firstTrigger] = "exited"
        /\ firstTrigger \in Range(stopCalls)
        /\ stopCalls = Reverse(UpTo(NumSpecs))
        /\ result = Ok

C9_Witness ==
    /\ Returned
    /\ firstTrigger = 2
    /\ ~ExternalRequested
    /\ bridge = "waiting"
    /\ stopCalls = <<2, 1>>
    /\ result = Ok

\* C10: on the rollback path no send on the internal channel ever finds the
\* receiver gone, and when the start error is returned every notification that
\* was sent has been received and no sender is left (the channel is closed).
C10_RollbackDrainsChannel ==
    (err # Pending) =>
        /\ ~sendFailed
        /\ (Returned => consumed = sent /\ chan = <<>> /\ SenderCount = 0)

C10_Witness ==
    /\ Returned
    /\ result \in StartProcessError
    /\ stopCalls = <<2, 1>>
    /\ handle_sender[1] = "exited"
    /\ handle_sender[2] = "exited"
    /\ consumed = 2

\* A start has failed, a message has been put on the internal channel, or the
\* caller has asked for shutdown.
Triggered == err # Pending \/ sent > 0 \/ ExternalRequested

\* C11 as stated: every handle pushed onto the running set is eventually
\* passed to stop_process, in every execution.
C11_EveryPushedHandleEventuallyStopped ==
    \A h \in Handles : (h \in Range(pushed)) ~> (h \in Range(stopCalls))

\* C11, amended: every handle pushed onto the running set is passed to
\* stop_process, exactly once, in every execution in which a start fails or a
\* shutdown trigger occurs; while neither happens the handle stays in the
\* running set.
C11_PushedHandleStoppedOnceTriggered ==
    /\ \A h \in Handles : (h \in Range(pushed) /\ Triggered) ~> (h \in Range(stopCalls))
    /\ [](NoDuplicates(stopCalls))
    /\ [](\A h \in Range(pushed) : h \in Range(running) \/ h \in Range(stopCalls))

C11_Witness ==
    /\ Returned
    /\ pushed = <<1, 2, 3>>
    /\ stopCalls = <<3, 2, 1>>
    /\ firstTrigger = 1

(***************************************************************************)
(* Properties of the configuration parser.                                 *)
(***************************************************************************)

\* The pieces of a split joined again with single spaces.
RECURSIVE Join(_)
Join(pieces) ==
    IF Len(pieces) = 1 THEN pieces[1]
    ELSE pieces[1] \o <<" ">> \o Join(Tail(pieces))

\* C15: every command descriptor the parser produces has a non-empty program.
C15_ProgramNonEmpty ==
    (command.state = "ok") => command.program # <<>>

\* C15: no accepted command makes the conversion panic instead of producing a
\* descriptor.
C15_NoPanic ==
    command.state # "panic"

HasSpace(l) == \E i \in 1..Len(l) : l[i] = " "
\* The same configuration with its command given as the array `pieces`.
AsVector(config, pieces) ==
    [config EXCEPT !.command = [tag |-> "CommandVector", line |-> <<>>, v |-> pieces]]

\* C16: a bare string yields the pieces between its single spaces, the first as
\* program and the others, in order, as args, which is the descriptor the array
\* of those pieces yields; a non-empty array yields its first element and the
\* rest; the simple forms have no user and no env_vars, the detailed form those
\* of the object and the program and args of its inner command.
C16_CommandNormalization ==
    (command # NotParsed) =>
        LET inner == line.command
            pieces == <<command.program>> \o command.args
        IN  /\ (inner.tag = "CommandString") =>
                    /\ command.state = "ok"
                    /\ \A j \in 1..Len(pieces) : ~HasSpace(pieces[j])
                    /\ Join(pieces) = inner.line
                    /\ command = From(AsVector(line, pieces))
            /\ (inner.tag = "CommandVector" /\ inner.v # <<>>) =>
                    /\ command.state = "ok"
                    /\ command.program = inner.v[1]
                    /\ command.args = Tail(inner.v)
            /\ (command.state = "ok" /\ line.tag = "Simple") =>
                    command.user = <<>> /\ command.env_vars = {}
            /\ (command.state = "ok" /\ line.tag = "Detailed") =>
                    /\ command.user = line.user
                    /\ command.env_vars = line.env_vars
                    /\ command.program = From([line EXCEPT !.tag = "Simple"]).program
                    /\ command.args = From([line EXCEPT !.tag = "Simple"]).args

C16_Witness ==
    /\ line.tag = "Detailed"
    /\ line.user = <<"app">>
    /\ line.command.tag = "CommandString"
    /\ line.command.line = <<"a", " ", "b">>
    /\ command.state = "ok"
    /\ command.program = <<"a">>
    /\ command.args = <<<<"b">>>>

\* C12: after run_processes has returned nothing the engine created still holds
\* a handle or an end of either channel: the bridge task was never spawned or
\* has run to completion and has let go of its sender and of the external
\* receiver.
C12_NothingHeldAfterReturn ==
    Returned =>
        /\ running = <<>>
        /\ inflight = 0
        /\ ~shutdown_sender
        /\ ~start_sender
        /\ ~shutdown_receiver
        /\ bridge \in {"unspawned", "done_value", "done_closed"}
        /\ ~external_shutdown_sender
        /\ shutdown.rx = "dropped"

\* C13 as stated: when the external channel is closed before any start, the
\* returned run has made no stop call and returned Ok.
C13_EarlyCloseStopsNothing ==
    (shutdown.closedEarly /\ Returned) => stopCalls = <<>> /\ result = Ok

\* C13, amended: when the external channel is closed before any start, the
\* engine still starts every spec in order and makes no stop call before the
\* startup loop has ended; if all starts succeeded the returned run has stopped
\* the whole running set in reverse order (no stop call only for the empty
\* list) and returned Ok, and if a start failed it has returned that error.
C13_EarlyCloseStillStartsAll ==
    shutdown.closedEarly =>
        /\ (err = Pending /\ stopCalls # <<>>) => processes = <<>>
        /\ (Returned /\ AllStartsOk) =>
                /\ startCalls = UpTo(NumSpecs)
                /\ stopCalls = Reverse(UpTo(NumSpecs))
                /\ result = Ok
        /\ (Returned /\ ~AllStartsOk) => result = startResults[FirstFail]

C13_Witness ==
    /\ shutdown.closedEarly
    /\ Returned
    /\ firstTrigger = External
    /\ startCalls = <<1, 2>>
    /\ stopCalls = <<2, 1>>
    /\ result = Ok

C13_WitnessEmpty ==
    /\ shutdown.closedEarly
    /\ Returned
    /\ NumSpecs = 0
    /\ stopCalls = <<>>
    /\ result = Ok

\* C14: the steady-state recv never finds the channel empty with every sender
\* gone (the expect never panics): while the engine waits there it holds its
\* own sender, whatever the handles and the bridge have done with theirs.
C14_SteadyRecvNeverPanics ==
    /\ pc # "panicked"
    /\ (pc = "recv") => shutdown_sender /\ SenderCount >= 1

C14_Witness ==
    /\ pc = "recv"
    /\ chan = <<>>
    /\ pushed = <<1, 2>>
    /\ handle_sender[1] = "dropped"
    /\ handle_sender[2] = "dropped"
    /\ ExternalRequested

C14_WitnessEmpty ==
    /\ pc = "recv"
    /\ chan = <<>>
    /\ NumSpecs = 0
    /\ SenderCount = 2

\* A start_process or stop_process call is being awaited.
CallInProgress == pc \in {"starting", "rb_stopping", "td_stopping"}

\* C17: the engine has at most one start_process or stop_process call in
\* progress: a start or stop call begins only in a step taken from a state in
\* which every earlier call has returned, and begins alone.
C17_OneOperationAtATime ==
    [][(startCalls' # startCalls \/ stopCalls' # stopCalls) =>
            /\ ~CallInProgress
            /\ inflight = 0
            /\ Len(startResults) = Len(startCalls)
            /\ Len(startCalls') + Len(stopCalls') = Len(startCalls) + Len(stopCalls) + 1
            /\ CallInProgress']_vars

\* Reached when a stop call is awaited after an earlier stop and all starts
\* have returned.
C17_Witness ==
    /\ pc = "td_stopping"
    /\ inflight = 2
    /\ stopCalls = <<3, 2>>
    /\ Len(startResults) = 3

\* C18: a stop_process call that returned an error does not end the loop: in
\* teardown and in rollback the stop calls follow the reverse of the push order
\* whatever calls have failed, and the returned run has stopped every handle.
C18_StopErrorDoesNotEndLoop ==
    (stopCalls # <<>>) =>
        /\ stopErrors \subseteq Range(stopCalls)
        /\ IsPrefix(stopCalls, Reverse(pushed))
        /\ (~CallInProgress /\ ~Returned /\ pc # "drain") =>
                running = SubSeq(pushed, 1, Len(pushed) - Len(stopCalls))
        /\ (Returned \/ pc = "drain") => stopCalls = Reverse(pushed)

C18_Witness ==
    /\ Returned
    /\ stopErrors = {1, 3}
    /\ stopCalls = <<3, 2, 1>>
    /\ result = Ok

C18_WitnessRollback ==
    /\ Returned
    /\ stopErrors = {2}
    /\ stopCalls = <<2, 1>>
    /\ result \in StartProcessError

NoLiveHandle == \A h \in Handles : handle_sender[h] # "live"

\* C19: the rollback drain terminates: the engine enters the drain with its own
\* sender released and no bridge spawned, a failed start always leads to the
\* drain (the stop calls return), and once no rolled-back handle holds a sender
\* any more the drain ends and the start error is returned.
C19_RollbackDrainTerminates ==
    /\ []((pc = "drain") =>
            /\ ~shutdown_sender
            /\ ~start_sender
            /\ ~external_shutdown_sender
            /\ bridge = "unspawned"
            /\ running = <<>>)
    /\ (err # Pending) ~> (pc = "drain" \/ Returned)
    /\ (pc = "drain" /\ NoLiveHandle) ~> (Returned /\ result = err)

C19_Witness ==
    /\ Returned
    /\ err # Pending
    /\ pushed = <<1, 2>>
    /\ handle_sender[1] = "dropped"
    /\ handle_sender[2] = "exited"
    /\ result = err

\* A trigger has occurred: the caller sent on or closed the external input, or
\* a child exited and notified.
TriggerOccurred == ExternalRequested \/ \E h \in Handles : handle_sender[h] = "exited"

\* C20: when no start has failed, no stop_process call is made and the engine
\* does not leave the steady-state recv before a trigger has occurred; with an
\* empty spec list it leaves it only on the external input, and then returns Ok
\* without a start or a stop call.
C20_NoSpuriousTeardown ==
    (err = Pending) =>
        /\ (stopCalls # <<>> \/ pc \in {"teardown", "td_stopping", "done"}) =>
                /\ TriggerOccurred
                /\ recvs = 1
                /\ processes = <<>>
        /\ (NumSpecs = 0 /\ pc \notin {"loop", "recv"}) =>
                /\ ExternalRequested
                /\ firstTrigger = External
        /\ (NumSpecs = 0 /\ Returned) =>
                /\ result = Ok
                /\ startCalls = <<>>
                /\ stopCalls = <<>>

C20_Witness ==
    /\ Returned
    /\ NumSpecs = 0
    /\ bridge = "done_closed"
    /\ ~shutdown.sent
    /\ result = Ok
    /\ startCalls = <<>>
    /\ stopCalls = <<>>

C20_WitnessWaiting ==
    /\ pc = "recv"
    /\ pushed = <<1, 2, 3>>
    /\ ~TriggerOccurred
    /\ stopCalls = <<>>


\* The state of the engine state machine that the position of run_processes
\* stands for: before the first start call it is INIT, inside the startup loop
\* STARTING, at the steady-state recv RUNNING, in the teardown loop TEARDOWN,
\* from the failed start to the end of the drain ROLLBACK, and after the return
\* DONE(ok) or DONE(err) by the returned value.
Phase ==
    CASE pc = "loop" /\ startCalls = <<>> -> "INIT"
      [] pc = "loop" /\ startCalls # <<>> -> "STARTING"
      [] pc = "starting" -> "STARTING"
      [] pc = "recv" -> "RUNNING"
      [] pc \in {"teardown", "td_stopping"} -> "TEARDOWN"
      [] pc \in {"rollback", "rb_stopping", "drain"} -> "ROLLBACK"
      [] pc = "done" /\ result = Ok -> "DONE_OK"
      [] pc = "done" /\ result # Ok -> "DONE_ERR"
      [] OTHER -> "NONE"

\* RUNNING has been entered at some point of the execution so far (the bridge
\* task is spawned on the way into it and never before).
EnteredRunning == bridge # "unspawned"
\* ROLLBACK has been entered at some point (the start error is kept from then on).
EnteredRollback == err # Pending

\* A step that changes the state of the state machine takes one of its edges,
\* under the edge's condition.
PhaseEdge ==
    \/ /\ Phase = "INIT"
       /\ Phase' = "STARTING"
       /\ processes # <<>>
       /\ startCalls' = <<Head(processes)>>
    \/ /\ Phase = "INIT"
       /\ Phase' = "RUNNING"
       /\ NumSpecs = 0
    \/ /\ Phase = "STARTING"
       /\ Phase' = "RUNNING"
       /\ processes = <<>>
       /\ AllStartsOk
       /\ Len(startResults) = NumSpecs
       /\ running = UpTo(NumSpecs)
    \/ /\ Phase = "STARTING"
       /\ Phase' = "ROLLBACK"
       /\ pc = "starting"
       /\ err = Pending
       /\ err' \in StartProcessError
       /\ startResults' = Append(startResults, err')
    \/ /\ Phase = "RUNNING"
       /\ Phase' = "TEARDOWN"
    \/ /\ Phase = "TEARDOWN"
       /\ Phase' = "DONE_OK"
       /\ running = <<>>
       /\ inflight = 0
       /\ stopCalls = Reverse(pushed)
       /\ pushed = UpTo(NumSpecs)
    \/ /\ Phase = "ROLLBACK"
       /\ Phase' = "DONE_ERR"
       /\ running = <<>>
       /\ result' = err

\* C21: every step of run_processes either stays in its state of the engine
\* state machine or takes one of the machine's edges: INIT to STARTING on the
\* first start call, INIT to RUNNING for an empty list, STARTING to RUNNING
\* only with the list exhausted and every start Ok, STARTING to ROLLBACK only
\* on a start error, RUNNING to TEARDOWN, TEARDOWN to DONE(ok) only with every
\* handle stopped, ROLLBACK to DONE(err); a successful start stays in STARTING;
\* a start call is made only in INIT or STARTING and only while neither
\* RUNNING nor ROLLBACK has been entered; and no execution enters both RUNNING
\* and ROLLBACK.
C21_FollowsStateMachine ==
    /\ [][/\ Phase' # Phase => PhaseEdge
          /\ (pc = "starting" /\ startResults' = Append(startResults, Ok)) =>
                /\ Phase' = "STARTING"
                /\ pushed' = Append(pushed, inflight)
          /\ startCalls' # startCalls =>
                /\ Phase \in {"INIT", "STARTING"}
                /\ Phase' = "STARTING"
                /\ ~EnteredRunning
                /\ ~EnteredRollback]_vars
    /\ [](Phase # "NONE")
    /\ [](~(EnteredRunning /\ EnteredRollback))
    /\ [](Phase \in {"RUNNING", "TEARDOWN", "DONE_OK"} => EnteredRunning /\ ~EnteredRollback)
    /\ [](Phase \in {"ROLLBACK", "DONE_ERR"} => EnteredRollback /\ ~EnteredRunning)

\* Reached when a run that stayed in STARTING for two successful starts went to
\* ROLLBACK on the third and returned the error.
C21_Witness ==
    /\ Phase = "DONE_ERR"
    /\ startCalls = <<1, 2, 3>>
    /\ pushed = <<1, 2>>
    /\ stopCalls = <<2, 1>>
    /\ ~EnteredRunning

\* Reached when a run went through RUNNING and TEARDOWN to DONE(ok).
C21_WitnessOk ==
    /\ Phase = "DONE_OK"
    /\ startCalls = <<1, 2, 3>>
    /\ stopCalls = <<3, 2, 1>>
    /\ EnteredRunning
    /\ ~EnteredRollback


\* run_processes is in its startup loop and no start has failed.
InStartup == pc \in {"loop", "starting"} /\ err = Pending
\* A trigger has occurred: a child-exit notification was sent on the shutdown
\* channel, or the external input has fired or closed.
StartupTrigger == sent > 0 \/ ExternalRequested

\* C22: a trigger that occurs during startup is deferred. While the loop runs
\* and no start has failed, nothing is received from the shutdown channel, no
\* message is lost and no stop_process call is made; with a trigger present
\* the loop's steps are still the start of the next spec in order, the push of
\* the started handle, the failure of the start, or, with the list exhausted,
\* the move to the steady-state recv; the first stop call of a run without a
\* failed start follows the one steady-state recv and finds all n handles
\* running; and a trigger present during startup does lead to that recv unless
\* a start fails.
C22_StartupTriggersDeferred ==
    /\ [](InStartup =>
            /\ stopCalls = <<>>
            /\ recvs = 0
            /\ consumed = 0
            /\ Len(chan) = sent
            /\ bridge = "unspawned"
            /\ startCalls = UpTo(Len(startCalls)))
    /\ [][(InStartup /\ StartupTrigger /\ pc' # pc) =>
            /\ stopCalls' = <<>>
            /\ consumed' = 0
            /\ chan' = chan
            /\ (pc = "loop" /\ processes # <<>>) =>
                    /\ pc' = "starting"
                    /\ startCalls' = Append(startCalls, Head(processes))
                    /\ processes' = Tail(processes)
            /\ (pc = "loop" /\ processes = <<>>) =>
                    /\ pc' = "recv"
                    /\ running = UpTo(NumSpecs)
            /\ pc = "starting" =>
                    \/ /\ pc' = "loop"
                       /\ running' = Append(running, inflight)
                    \/ /\ pc' = "rollback"
                       /\ err' # Pending]_vars
    /\ [][(err = Pending /\ stopCalls = <<>> /\ stopCalls' # <<>>) =>
            /\ pc = "teardown"
            /\ recvs = 1
            /\ consumed = 1
            /\ processes = <<>>
            /\ running = UpTo(NumSpecs)
            /\ stopCalls' = <<NumSpecs>>]_vars
    /\ (InStartup /\ StartupTrigger) ~> (err # Pending \/ recvs = 1)

\* Reached when the external input closed before the first start, all three
\* specs were started all the same, and the teardown has begun with the last
\* handle after the steady-state recv.
C22_Witness ==
    /\ shutdown.closedEarly
    /\ pc = "td_stopping"
    /\ err = Pending
    /\ startCalls = <<1, 2, 3>>
    /\ pushed = <<1, 2, 3>>
    /\ stopCalls = <<3>>
    /\ recvs = 1

\* Reached when a child has sent its exit notification and the external input
\* has closed while the last spec is being started and nothing has been stopped.
C22_WitnessDuringStartup ==
    /\ pc = "starting"
    /\ inflight = 3
    /\ chan # <<>>
    /\ ~shutdown.tx
    /\ err = Pending
    /\ stopCalls = <<>>

====
